---- MODULE Spec2Model ----
(***************************************************************************)
(* neverthrow-fs: the error classifier mapNodeError and the blocking and   *)
(* non-blocking wrappers built on it.                                      *)
(*                                                                         *)
(* JavaScript values are records [t, v]: t is the typeof-style tag and v   *)
(* the payload as text (a number's decimal text, an object's heap id).     *)
(* Objects live in `heap`; a reference is [t |-> "object", v |-> id], so   *)
(* two references are identical exactly when they name the same heap cell. *)
(***************************************************************************)
EXTENDS Integers, Sequences, FiniteSets, TLC

VARIABLES heap, input, results, re, call, calls

vars == <<heap, input, results, re, call, calls>>

-----------------------------------------------------------------------------
(* Bounds *)

\* calls of the classifier in one behaviour of SpecMap
MaxClassify == 3

\* those of them that classify an earlier result
MaxReclassify == 1

\* non-blocking calls in flight together in one behaviour of SpecConc
MaxCalls == 2

\* times the caller awaits or chains the returned ResultAsyncs, all together
MaxAwait == 2

-----------------------------------------------------------------------------
(* JavaScript values *)

Undefined == [t |-> "undefined", v |-> ""]
Null == [t |-> "null", v |-> ""]
Absent == [t |-> "absent", v |-> ""]
Str(s) == [t |-> "string", v |-> s]
Num(s) == [t |-> "number", v |-> s]
Bool(s) == [t |-> "boolean", v |-> s]
Ref(id) == [t |-> "object", v |-> id]

\* typeof x
TypeOf(x) == IF x.t = "null" THEN "object" ELSE x.t

\* ToBoolean(x), as used by &&, || and ?:
Truthy(x) ==
  CASE x.t = "undefined" -> FALSE
    [] x.t = "null" -> FALSE
    [] x.t = "string" -> x.v /= ""
    [] x.t = "number" -> x.v \notin {"0", "NaN"}
    [] x.t = "boolean" -> x.v = "true"
    [] OTHER -> TRUE

\* a || b
Or(a, b) == IF Truthy(a) THEN a ELSE b

\* prototypes whose chain ends in an Error.prototype (message "", name "Error",
\* Error.prototype.toString); "ForeignError" is an Error of another realm, for
\* which `instanceof Error` is false
ErrorProtos == {"Error", "ForeignError"}

\* 'f' in o
HasProperty(o, f) ==
  \/ o[f] /= Absent
  \/ o.proto \in ErrorProtos /\ f \in {"message", "name"}

\* o.f
Get(o, f) ==
  IF o[f] /= Absent THEN o[f]
  ELSE IF o.proto \in ErrorProtos /\ f = "message" THEN Str("")
  ELSE IF o.proto \in ErrorProtos /\ f = "name" THEN Str("Error")
  ELSE Undefined

\* o.f for a field name the object's class need not declare
Read(o, f) == IF f \in DOMAIN o THEN Get(o, f) ELSE Undefined

\* x instanceof Error
InstanceOfError(x, h) == x.t = "object" /\ h[x.v].proto = "Error"

Return(val) == [kind |-> "return", val |-> val]
Throw(exc) == [kind |-> "throw", val |-> Str(exc)]

\* String(x) for a primitive x
PrimToString(x) ==
  CASE x.t = "undefined" -> "undefined"
    [] x.t = "null" -> "null"
    [] OTHER -> x.v

\* Error.prototype.toString applied to o (fields that are primitives)
ErrorToString(o) ==
  LET name == IF Get(o, "name") = Undefined THEN "Error" ELSE PrimToString(Get(o, "name"))
      msg == IF Get(o, "message") = Undefined THEN "" ELSE PrimToString(Get(o, "message"))
  IN IF name = "" THEN msg
     ELSE IF msg = "" THEN name
     ELSE name \o ": " \o msg

\* String(x): a primitive converts by its type, an object through its
\* toString method; an object with no prototype has none and String throws
ToStr(x, h) ==
  IF x.t /= "object" THEN Return(Str(PrimToString(x)))
  ELSE LET o == h[x.v]
       IN CASE o.proto \in ErrorProtos -> Return(Str(ErrorToString(o)))
            [] o.proto = "Object" -> Return(Str("[object Object]"))
            [] OTHER -> Throw("TypeError: Cannot convert object to primitive value")

-----------------------------------------------------------------------------
(* The error classes *)

FsErrorName ==
  {"FileNotFoundError", "PermissionDeniedError", "DirectoryNotEmptyError",
   "FileAlreadyExistsError", "NotADirectoryError", "IsADirectoryError",
   "InvalidArgumentError", "IOError", "UnknownError"}

\* new FileNotFoundError(message, path, cause) and its six siblings
NewSpecificError(name, message, path, cause) ==
  [proto |-> "Object", name |-> Str(name), message |-> message, path |-> path,
   syscall |-> Absent, code |-> Absent, cause |-> cause, fd |-> Absent]

\* IOError with the syscall and code arguments in each other's place
NewIOError_Swapped(message, path, syscall, code, cause) ==
  [proto |-> "Object", name |-> Str("IOError"), message |-> message, path |-> path,
   syscall |-> code, code |-> syscall, cause |-> cause, fd |-> Absent]

\* new IOError(message, path, syscall, code, cause)
NewIOError(message, path, syscall, code, cause) ==
  [proto |-> "Object", name |-> Str("IOError"), message |-> message, path |-> path,
   syscall |-> syscall, code |-> code, cause |-> cause, fd |-> Absent]

\* UnknownError keeping the text of the failure in place of the failure
NewUnknownError_TextCause(message, cause) ==
  [proto |-> "Object", name |-> Str("UnknownError"), message |-> message, path |-> Absent,
   syscall |-> Absent, code |-> Absent, cause |-> message, fd |-> Absent]

\* new UnknownError(message, cause)
NewUnknownError(message, cause) ==
  [proto |-> "Object", name |-> Str("UnknownError"), message |-> message, path |-> Absent,
   syscall |-> Absent, code |-> Absent, cause |-> cause, fd |-> Absent]

-----------------------------------------------------------------------------
(* mapNodeError *)

\* the test by type identity: error instanceof Error
isNodeError_InstanceOf(error, h) == InstanceOfError(error, h)

\* error && typeof error === 'object' && 'message' in error
\*   && typeof error.message === 'string'
isNodeError(error, h) ==
  /\ Truthy(error)
  /\ TypeOf(error) = "object"
  /\ HasProperty(h[error.v], "message")
  /\ TypeOf(Get(h[error.v], "message")) = "string"

\* the switch without the EPERM label
SwitchCode_NoEPERM(code) ==
  CASE code = Str("ENOENT") -> "FileNotFoundError"
    [] code = Str("EACCES") -> "PermissionDeniedError"
    [] code = Str("ENOTEMPTY") -> "DirectoryNotEmptyError"
    [] code = Str("EEXIST") -> "FileAlreadyExistsError"
    [] code = Str("ENOTDIR") -> "NotADirectoryError"
    [] code = Str("EISDIR") -> "IsADirectoryError"
    [] code = Str("EINVAL") -> "InvalidArgumentError"
    [] OTHER -> "IOError"

\* the switch on nodeErr.code (strict equality against the case labels)
SwitchCode(code) ==
  CASE code = Str("ENOENT") -> "FileNotFoundError"
    [] code = Str("EACCES") -> "PermissionDeniedError"
    [] code = Str("EPERM") -> "PermissionDeniedError"
    [] code = Str("ENOTEMPTY") -> "DirectoryNotEmptyError"
    [] code = Str("EEXIST") -> "FileAlreadyExistsError"
    [] code = Str("ENOTDIR") -> "NotADirectoryError"
    [] code = Str("EISDIR") -> "IsADirectoryError"
    [] code = Str("EINVAL") -> "InvalidArgumentError"
    [] OTHER -> "IOError"

\* the message taken over without the default
NodeMessage_NoDefault(nodeErr) == Get(nodeErr, "message")

\* nodeErr.message || 'Unknown error'
NodeMessage(nodeErr) == Or(Get(nodeErr, "message"), Str("Unknown error"))

\* the contextPath alone, without the failure's own path
ErrorPath_ContextOnly(path, nodeErr) == path

\* path || nodeErr.path
ErrorPath(path, nodeErr) == Or(path, Get(nodeErr, "path"))

\* the branch with a default label that gives up on an unlisted code
MapShaped_DefaultUnknown(error, path, h) ==
  LET nodeErr == h[error.v]
      message == NodeMessage(nodeErr)
      variant == SwitchCode(Get(nodeErr, "code"))
  IN IF variant = "IOError"
     THEN NewUnknownError(message, error)
     ELSE NewSpecificError(variant, message, ErrorPath(path, nodeErr), error)

\* the branch taken for an error-shaped value
MapShaped(error, path, h) ==
  LET nodeErr == h[error.v]
      message == NodeMessage(nodeErr)
      variant == SwitchCode(Get(nodeErr, "code"))
  IN IF variant = "IOError"
     THEN NewIOError(message, ErrorPath(path, nodeErr), Get(nodeErr, "syscall"),
                     Get(nodeErr, "code"), error)
     ELSE NewSpecificError(variant, message, ErrorPath(path, nodeErr), error)

\* error instanceof Error ? error.message : String(error)
FallbackMessage(error, h) ==
  IF InstanceOfError(error, h) THEN Return(Get(h[error.v], "message"))
  ELSE ToStr(error, h)

\* mapNodeError(error, path): the outcome is the constructed error object, or
\* the exception that leaves the function
mapNodeError(error, path, h) ==
  IF isNodeError(error, h) THEN Return(MapShaped(error, path, h))
  ELSE LET m == FallbackMessage(error, h)
       IN IF m.kind = "throw" THEN m
          ELSE Return(NewUnknownError(m.val, error))

-----------------------------------------------------------------------------
(* The wrappers *)

NoOutcome == [kind |-> "none", val |-> Undefined]
Pending == [kind |-> "pending", val |-> Undefined]

\* no wrapper call has been made yet
NoCall ==
  [layer |-> "none", op |-> "", a |-> Undefined, b |-> Undefined, invoked |-> 0,
   log |-> <<>>, present |-> "-", oserr |-> Undefined,
   ctx |-> Absent, consumed |-> "no",
   prim |-> NoOutcome, result |-> NoOutcome]

\* the blocking wrappers and the argument each hands to mapNodeError
SyncFirstArg ==
  {"accessSync", "chmodSync", "chownSync", "copyFileSync", "existsSync", "linkSync",
   "mkdirSync", "readdirSync", "readlinkSync", "realpathSync", "renameSync", "rmdirSync",
   "rmSync", "statSync", "lstatSync", "truncateSync", "unlinkSync", "utimesSync"}
SyncFdOrPath == {"appendFileSync", "readFileSync", "writeFileSync"}
SyncSecondArg == {"symlinkSync"}
SyncNoContext == {"mkdtempSync"}
SyncOps == SyncFirstArg \cup SyncFdOrPath \cup SyncSecondArg \cup SyncNoContext

\* the blocking wrappers that end in `return ok(undefined)`
SyncVoid ==
  {"accessSync", "appendFileSync", "chmodSync", "chownSync", "copyFileSync", "linkSync",
   "renameSync", "rmdirSync", "rmSync", "symlinkSync", "truncateSync", "unlinkSync",
   "utimesSync", "writeFileSync"}

\* the non-blocking wrappers and the argument each hands to mapNodeError
AsyncFirstArg ==
  {"access", "chmod", "chown", "copyFile", "cp", "link", "lchown", "lchmod", "lutimes",
   "mkdir", "open", "opendir", "readdir", "readlink", "realpath", "rename", "rmdir", "rm",
   "stat", "lstat", "truncate", "unlink", "utimes", "watch"}
AsyncHandleOrPath == {"appendFile", "readFile", "writeFile"}
AsyncSecondArg == {"symlink"}
AsyncNoContext == {"mkdtemp"}
AsyncOps == AsyncFirstArg \cup AsyncHandleOrPath \cup AsyncSecondArg \cup AsyncNoContext

\* the operations that take a second path
TwoPathOps ==
  {"copyFileSync", "linkSync", "renameSync", "symlinkSync",
   "copyFile", "cp", "link", "rename", "symlink"}

\* the primitives whose result is nothing
VoidPrims ==
  SyncVoid \cup
  {"access", "appendFile", "chmod", "chown", "copyFile", "cp", "link", "lchown", "lchmod",
   "lutimes", "rename", "rmdir", "rm", "symlink", "truncate", "unlink", "utimes", "writeFile"}

\* a FileHandle: an object with an fd
HandleObject ==
  [proto |-> "Object", name |-> Absent, message |-> Absent, path |-> Absent,
   syscall |-> Absent, code |-> Absent, cause |-> Absent, fd |-> Num("3")]

\* an object a primitive returns (Buffer, Stats, Dirent[], FileHandle, Dir, iterator)
ValueObject ==
  [proto |-> "Object", name |-> Absent, message |-> Absent, path |-> Absent,
   syscall |-> Absent, code |-> Absent, cause |-> Absent, fd |-> Absent]

\* the first argument a caller passes: a path, an empty path, null, undefined,
\* a file descriptor, a FileHandle
FirstArgs == {Str("/a/b.txt"), Str(""), Null, Undefined, Num("3"), Ref("h1")}

\* the second path of a two-path operation
SecondArgs == {Str("/c/d.txt"), Null}

\* the objects that exist before the primitive runs
ArgHeap(a) == IF a = Ref("h1") THEN ("h1" :> HandleObject) ELSE <<>>

\* x.toString()
MethodToString(x, h) ==
  IF x.t \in {"null", "undefined"}
  THEN Throw("TypeError: Cannot read properties of " \o x.t)
  ELSE ToStr(x, h)

\* 'fd' in x
InFd(x, h) ==
  IF x.t = "object" THEN Return(Bool(IF HasProperty(h[x.v], "fd") THEN "true" ELSE "false"))
  ELSE Throw("TypeError: Cannot use 'in' operator to search for 'fd' in " \o x.t)

\* the context taken from the first argument whatever its type
SyncFdContext_AlwaysToString(file, h) == MethodToString(file, h)

\* typeof file === 'number' ? undefined : file.toString()
SyncFdContext(file, h) ==
  IF TypeOf(file) = "number" THEN Return(Undefined) ELSE MethodToString(file, h)

\* typeof file === 'object' && 'fd' in file ? undefined : file.toString()
AsyncHandleContext(file, h) ==
  IF TypeOf(file) = "object"
  THEN LET i == InFd(file, h)
       IN IF i.kind = "throw" THEN i
          ELSE IF i.val = Bool("true") THEN Return(Undefined)
          ELSE MethodToString(file, h)
  ELSE MethodToString(file, h)

\* the handlers with mkdtemp handing its prefix over like any other path
ContextPath_PrefixAsPath(op, a, b, h) ==
  CASE op \in SyncSecondArg \cup AsyncSecondArg -> MethodToString(b, h)
    [] op \in SyncFdOrPath -> SyncFdContext(a, h)
    [] op \in AsyncHandleOrPath -> AsyncHandleContext(a, h)
    [] OTHER -> MethodToString(a, h)

\* the second argument of mapNodeError as each wrapper's handler computes it
ContextPath(op, a, b, h) ==
  CASE op \in SyncFirstArg \cup AsyncFirstArg -> MethodToString(a, h)
    [] op \in SyncSecondArg \cup AsyncSecondArg -> MethodToString(b, h)
    [] op \in SyncFdOrPath -> SyncFdContext(a, h)
    [] op \in AsyncHandleOrPath -> AsyncHandleContext(a, h)
    [] OTHER -> Return(Undefined)

\* err(mapNodeError(error, <context>)): what the catch block, or the errorFn of
\* ResultAsync.fromPromise, produces; `escape` is how an exception raised there
\* leaves the wrapper
Handler(op, a, b, error, h, escape) ==
  LET ctx == ContextPath(op, a, b, h)
  IN IF ctx.kind = "throw"
     THEN [kind |-> escape, val |-> ctx.val, obj |-> Absent, ctx |-> Absent]
     ELSE LET m == mapNodeError(error, ctx.val, h)
          IN IF m.kind = "throw"
             THEN [kind |-> escape, val |-> m.val, obj |-> Absent, ctx |-> ctx.val]
             ELSE [kind |-> "Err", val |-> Ref("o2"), obj |-> m.val, ctx |-> ctx.val]

\* every blocking wrapper ending in `return ok(undefined)`
SyncOk_AllVoid(op, value) == [kind |-> "Ok", val |-> Undefined]

\* ok(value) of a blocking wrapper whose body is `fs.xSync(...); return ok(undefined)`
\* or `return ok(fs.xSync(...))`
SyncOk(op, value) == [kind |-> "Ok", val |-> IF op \in SyncVoid THEN Undefined ELSE value]

\* a fulfilment branch that drops the promise's value
AsyncOk_Dropped(value) == [kind |-> "Ok", val |-> Undefined]

\* the fulfilment branch of ResultAsync.fromPromise: Ok of the promise's value
AsyncOk(value) == [kind |-> "Ok", val |-> value]

-----------------------------------------------------------------------------
(* The underlying primitives *)

SysCodes ==
  {"ENOENT", "EACCES", "EPERM", "ENOTEMPTY", "EEXIST", "ENOTDIR", "EISDIR", "EINVAL", "EIO"}

\* a system error of the platform
SystemError(code, path) ==
  [proto |-> "Error", name |-> Absent, message |-> Str(code \o ": operation failed"),
   path |-> path, syscall |-> Str("open"), code |-> Str(code), cause |-> Absent, fd |-> Absent]

\* the TypeError raised for an argument of the wrong type
ArgTypeError ==
  [proto |-> "Error", name |-> Str("TypeError"),
   message |-> Str("The \"path\" argument must be of type string or an instance of Buffer or URL"),
   path |-> Absent, syscall |-> Absent, code |-> Str("ERR_INVALID_ARG_TYPE"),
   cause |-> Absent, fd |-> Absent]

\* the primitive accepts the arguments' types
ValidArgs(op, a, b) ==
  /\ \/ a.t = "string"
     \/ a.t = "number" /\ op \in SyncFdOrPath
     \/ a.t = "object" /\ op \in AsyncHandleOrPath
  /\ op \in TwoPathOps => b.t = "string"

\* the values a primitive can return
ReturnValues(op) ==
  CASE op \in VoidPrims -> {Undefined}
    [] op \in {"mkdirSync", "mkdir"} -> {Undefined, Str("/a")}
    [] op = "existsSync" -> {Bool("true"), Bool("false")}
    [] OTHER -> {Str("data"), Ref("v1")}

\* the objects a primitive's outcome brings into existence
OutcomeHeap(out) ==
  CASE out.kind = "fail" -> ("o1" :> out.obj)
    [] out.kind = "ok" /\ out.val = Ref("v1") -> ("v1" :> ValueObject)
    [] OTHER -> <<>>

\* the failures the existence check can meet on its way to the path
ExistsFailures == {"ENOENT", "ENOTDIR", "EACCES", "EIO"}

\* an existence check that raises the failure it meets, as fs.accessSync does
ExistsOutcomes_Raising(a) ==
  IF a.t /= "string"
  THEN {[kind |-> "fail", val |-> Ref("o1"), obj |-> ArgTypeError, present |-> "no",
         oserr |-> Str("ERR_INVALID_ARG_TYPE")]}
  ELSE IF a.v = ""
  THEN {[kind |-> "fail", val |-> Ref("o1"), obj |-> SystemError("ENOENT", a),
         present |-> "no", oserr |-> Str("ENOENT")]}
  ELSE {[kind |-> "ok", val |-> Bool("true"), obj |-> Absent, present |-> "yes",
         oserr |-> Undefined]}
       \cup {[kind |-> "fail", val |-> Ref("o1"), obj |-> SystemError(c, a),
               present |-> "no", oserr |-> Str(c)] : c \in ExistsFailures}
       \cup {[kind |-> "fail", val |-> Ref("o1"), obj |-> SystemError(c, a),
               present |-> "yes", oserr |-> Str(c)] : c \in ExistsFailures \ {"ENOENT", "ENOTDIR"}}

\* fs.existsSync: true when the check goes through, false whenever it meets a
\* failure, whichever it is, and false for an argument that is no path; nothing
\* is raised.  `present` is whether the path is there, `oserr` the failure met.
ExistsOutcomes(a) ==
  IF a.t /= "string"
  THEN {[kind |-> "ok", val |-> Bool("false"), obj |-> Absent, present |-> "no",
         oserr |-> Str("ERR_INVALID_ARG_TYPE")]}
  ELSE IF a.v = ""
  THEN {[kind |-> "ok", val |-> Bool("false"), obj |-> Absent, present |-> "no",
         oserr |-> Str("ENOENT")]}
  ELSE {[kind |-> "ok", val |-> Bool("true"), obj |-> Absent, present |-> "yes",
         oserr |-> Undefined]}
       \cup {[kind |-> "ok", val |-> Bool("false"), obj |-> Absent, present |-> "no",
               oserr |-> Str(c)] : c \in ExistsFailures}
       \cup {[kind |-> "ok", val |-> Bool("false"), obj |-> Absent, present |-> "yes",
               oserr |-> Str(c)] : c \in ExistsFailures \ {"ENOENT", "ENOTDIR"}}

\* the failures a watcher can meet when it is set up
WatchFailures == {"ENOENT", "EACCES"}

\* fs/promises.watch is an async generator function: the call runs none of its
\* body and returns the iterator; the arguments are validated and the watcher is
\* set up when the iterator is first consumed.  `oserr` is the failure waiting
\* there, undefined when there is none.
WatchOutcomes(a) ==
  {[kind |-> "ok", val |-> Ref("v1"), obj |-> Absent, present |-> "-", oserr |-> e] :
     e \in IF a.t /= "string" THEN {Str("ERR_INVALID_ARG_TYPE")}
           ELSE IF a.v = "" THEN {Str("ENOENT")}
           ELSE {Undefined} \cup {Str(c) : c \in WatchFailures}}

\* the outcomes of one invocation of the primitive of op: a value, or a failure
\* object raised (blocking) or rejected with (non-blocking)
PrimOutcomes(op, a, b) ==
  IF op = "existsSync"
  THEN ExistsOutcomes(a)
  ELSE IF op = "watch"
  THEN WatchOutcomes(a)
  ELSE IF ~ValidArgs(op, a, b)
  THEN {[kind |-> "fail", val |-> Ref("o1"), obj |-> ArgTypeError, present |-> "-",
         oserr |-> Undefined]}
  ELSE {[kind |-> "fail", val |-> Ref("o1"), obj |-> SystemError(c, p), present |-> "-",
         oserr |-> Undefined] :
          c \in SysCodes, p \in {Absent, Str("/a/b.txt"), Str("/other")}}
       \cup (IF a = Str("") THEN {}
             ELSE {[kind |-> "ok", val |-> v, obj |-> Absent, present |-> "-",
                    oserr |-> Undefined] : v \in ReturnValues(op)})

-----------------------------------------------------------------------------
(* Spec: one wrapper call, from the call to its result.  The wrappers keep no
   state between calls, so every call starts from the state Init describes. *)

Init ==
  /\ heap = <<>>
  /\ input = Undefined
  /\ results = <<>>
  /\ re = <<>>
  /\ call = NoCall
  /\ calls = <<>>

\* the wrapper has not been called yet
Idle == call = NoCall

\* the name of the one primitive a wrapper's body names
PrimitiveOf(op) == IF op \in SyncOps THEN "fs." \o op ELSE "fs/promises." \o op

\* the body of a blocking wrapper, given the outcome of its primitive:
\* try { return ok(fs.xSync(...)) } catch (error) { return err(mapNodeError(...)) }
SyncResult(op, a, b, out, h) ==
  IF out.kind = "ok" THEN SyncOk(op, out.val) @@ [obj |-> Absent, ctx |-> Absent]
  ELSE Handler(op, a, b, out.val, h, "throw")

\* the callbacks of ResultAsync.fromPromise(fs.x(...), (error) => mapNodeError(...)),
\* given the outcome of the primitive's promise
AsyncResult(op, a, b, out, h) ==
  IF out.kind = "ok" THEN AsyncOk(out.val) @@ [obj |-> Absent, ctx |-> Absent]
  ELSE Handler(op, a, b, out.val, h, "reject")

\* a blocking wrapper that tries its primitive once more after a failure
SyncCall_Retry(op, a, b) ==
  /\ Idle
  /\ \E first \in PrimOutcomes(op, a, b), out \in PrimOutcomes(op, a, b) :
       LET h == ArgHeap(a) @@ OutcomeHeap(out)
           r == SyncResult(op, a, b, out, h)
           n == IF first.kind = "fail" THEN 2 ELSE 1
       IN /\ first.kind = "ok" => out = first
          /\ heap' = IF r.kind = "Err" THEN h @@ ("o2" :> r.obj) ELSE h
          /\ call' = [layer |-> "sync", op |-> op, a |-> a, b |-> b, invoked |-> n,
                      log |-> [k \in 1..n |-> PrimitiveOf(op)],
                      present |-> out.present, oserr |-> out.oserr, ctx |-> r.ctx,
                      consumed |-> "no",
                      prim |-> [kind |-> out.kind, val |-> out.val],
                      result |-> [kind |-> r.kind, val |-> r.val]]
  /\ UNCHANGED <<input, results, re, calls>>

\* a blocking wrapper: try { primitive } catch (error) { return err(mapNodeError(...)) }
SyncCall(op, a, b) ==
  /\ Idle
  /\ \E out \in PrimOutcomes(op, a, b) :
       LET h == ArgHeap(a) @@ OutcomeHeap(out)
           r == SyncResult(op, a, b, out, h)
       IN /\ heap' = IF r.kind = "Err" THEN h @@ ("o2" :> r.obj) ELSE h
          /\ call' = [layer |-> "sync", op |-> op, a |-> a, b |-> b, invoked |-> 1,
                      log |-> <<PrimitiveOf(op)>>,
                      present |-> out.present, oserr |-> out.oserr, ctx |-> r.ctx,
                      consumed |-> "no",
                      prim |-> [kind |-> out.kind, val |-> out.val],
                      result |-> [kind |-> r.kind, val |-> r.val]]
  /\ UNCHANGED <<input, results, re, calls>>

\* a non-blocking wrapper is called: the primitive is started and the
\* ResultAsync built from its promise is returned
AsyncCall(op, a, b) ==
  /\ Idle
  /\ heap' = ArgHeap(a)
  /\ call' = [layer |-> "async", op |-> op, a |-> a, b |-> b, invoked |-> 1,
              log |-> <<PrimitiveOf(op)>>, present |-> "-", oserr |-> Undefined,
              ctx |-> Absent, consumed |-> "no", prim |-> Pending, result |-> Pending]
  /\ UNCHANGED <<input, results, re, calls>>

\* the primitive's promise settles
PrimSettle ==
  /\ call.layer = "async"
  /\ call.prim.kind = "pending"
  /\ \E out \in PrimOutcomes(call.op, call.a, call.b) :
       /\ heap' = heap @@ OutcomeHeap(out)
       /\ call' = [call EXCEPT !.prim = [kind |-> out.kind, val |-> out.val],
                               !.present = out.present, !.oserr = out.oserr]
  /\ UNCHANGED <<input, results, re, calls>>

\* the then/catch callbacks of ResultAsync.fromPromise run
Resolve ==
  /\ call.layer = "async"
  /\ call.prim.kind \in {"ok", "fail"}
  /\ call.result.kind = "pending"
  /\ LET r == AsyncResult(call.op, call.a, call.b, call.prim, heap)
     IN /\ heap' = IF r.kind = "Err" THEN heap @@ ("o2" :> r.obj) ELSE heap
        /\ call' = [call EXCEPT !.result = [kind |-> r.kind, val |-> r.val], !.ctx = r.ctx]
  /\ UNCHANGED <<input, results, re, calls>>

\* the caller consumes the iterator that watch returned (for await ... of
\* result.value): the first next() sets the watcher up and yields an event, or
\* rejects with the failure met there
Consume ==
  /\ call.op = "watch"
  /\ call.result.kind = "Ok"
  /\ call.consumed = "no"
  /\ call' = [call EXCEPT !.consumed = IF call.oserr = Undefined THEN "event" ELSE "threw"]
  /\ UNCHANGED <<heap, input, results, re, calls>>

SecondOf(op) == IF op \in TwoPathOps THEN SecondArgs ELSE {Undefined}

Next ==
  \/ \E op \in SyncOps, a \in FirstArgs : \E b \in SecondOf(op) : SyncCall(op, a, b)
  \/ \E op \in AsyncOps, a \in FirstArgs : \E b \in SecondOf(op) : AsyncCall(op, a, b)
  \/ PrimSettle
  \/ Resolve
  \/ Consume

Spec == Init /\ [][Next]_vars

-----------------------------------------------------------------------------
(* Inputs of the classifier *)

Codes ==
  {Absent, Str("ENOENT"), Str("EACCES"), Str("EPERM"), Str("ENOTEMPTY"), Str("EEXIST"),
   Str("ENOTDIR"), Str("EISDIR"), Str("EINVAL"), Str("EIO"), Str("enoent"), Num("2")}

Messages == {Absent, Str(""), Str("ENOENT: no such file or directory"), Num("42")}

Paths == {Absent, Str(""), Str("/a/b.txt")}

Syscalls == {Absent, Str("open")}

Protos == {"Error", "ForeignError", "Object", "none"}

\* the objects a caller can hand to the classifier
FailureObjects ==
  [proto : Protos, name : {Absent}, message : Messages, path : Paths,
   syscall : Syscalls, code : Codes, cause : {Absent}, fd : {Absent}]

\* the primitive values a caller can hand to the classifier
FailurePrims ==
  {Null, Undefined, Str("plain string"), Str(""), Num("42"), Num("0"), Bool("true"),
   Bool("false")}

\* the contextPath argument: omitted, empty, non-empty
ContextPaths == {Undefined, Str(""), Str("/x")}

\* the contextPath argument when an earlier result is classified: omitted, given
ReContextPaths == {Undefined, Str("/x")}

\* the heap id given to the n-th object allocated after the input
ResultId(n) == <<"o2", "o3", "o4", "o5", "o6", "o7", "o8", "o9">>[n]

-----------------------------------------------------------------------------
(* SpecMap: the classifier applied to one failure value *)

InitMap ==
  /\ results = <<>>
  /\ re = <<>>
  /\ call = NoCall
  /\ calls = <<>>
  /\ \/ /\ input \in FailurePrims
        /\ heap = <<>>
     \/ /\ input = Ref("o1")
        /\ \E o \in FailureObjects : heap = ("o1" :> o)

\* a classifier that keeps a call count and honours the contextPath on its
\* first call only
Classify_FirstOnly(path) ==
  /\ Len(results) + Len(re) < MaxClassify
  /\ LET used == IF Len(results) = 0 THEN path ELSE Undefined
         out == mapNodeError(input, used, heap)
         id == ResultId(Len(results) + Len(re) + 1)
     IN IF out.kind = "return"
        THEN /\ heap' = heap @@ (id :> out.val)
             /\ results' = Append(results, [path |-> path, kind |-> "return", val |-> Ref(id)])
        ELSE /\ heap' = heap
             /\ results' = Append(results, [path |-> path, kind |-> "throw", val |-> out.val])
  /\ UNCHANGED <<input, call, re, calls>>

\* one call mapNodeError(input, path)
Classify(path) ==
  /\ Len(results) + Len(re) < MaxClassify
  /\ LET out == mapNodeError(input, path, heap)
         id == ResultId(Len(results) + Len(re) + 1)
     IN IF out.kind = "return"
        THEN /\ heap' = heap @@ (id :> out.val)
             /\ results' = Append(results, [path |-> path, kind |-> "return", val |-> Ref(id)])
        ELSE /\ heap' = heap
             /\ results' = Append(results, [path |-> path, kind |-> "throw", val |-> out.val])
  /\ UNCHANGED <<input, call, re, calls>>

\* a classifier that stores the contextPath in the object it is given
Reclassify_Mutating(j, path) ==
  /\ Len(results) + Len(re) < MaxClassify
  /\ Len(re) < MaxReclassify
  /\ j \in DOMAIN results
  /\ results[j].kind = "return"
  /\ LET given == results[j].val
         out == mapNodeError(given, path, heap)
         id == ResultId(Len(results) + Len(re) + 1)
         h == [heap EXCEPT ![given.v].path = path]
     IN IF out.kind = "return"
        THEN /\ heap' = h @@ (id :> out.val)
             /\ re' = Append(re, [of |-> j, path |-> path, kind |-> "return", val |-> Ref(id)])
        ELSE /\ heap' = h
             /\ re' = Append(re, [of |-> j, path |-> path, kind |-> "throw", val |-> out.val])
  /\ UNCHANGED <<input, results, call, calls>>

\* one call mapNodeError(e, path) on an error e that an earlier call returned
Reclassify(j, path) ==
  /\ Len(results) + Len(re) < MaxClassify
  /\ Len(re) < MaxReclassify
  /\ j \in DOMAIN results
  /\ results[j].kind = "return"
  /\ LET out == mapNodeError(results[j].val, path, heap)
         id == ResultId(Len(results) + Len(re) + 1)
     IN IF out.kind = "return"
        THEN /\ heap' = heap @@ (id :> out.val)
             /\ re' = Append(re, [of |-> j, path |-> path, kind |-> "return", val |-> Ref(id)])
        ELSE /\ heap' = heap
             /\ re' = Append(re, [of |-> j, path |-> path, kind |-> "throw", val |-> out.val])
  /\ UNCHANGED <<input, results, call, calls>>

NextMap ==
  \/ \E path \in ContextPaths : Classify(path)
  \/ \E j \in 1..MaxClassify, path \in ReContextPaths : Reclassify(j, path)

SpecMap == InitMap /\ [][NextMap]_vars

-----------------------------------------------------------------------------
(* Properties of the classifier, stated over SpecMap *)

\* the i-th classification returned a value
Returned(i) == results[i].kind = "return"

\* the error object the i-th classification returned
Res(i) == heap[results[i].val.v]

\* the input is an object exposing a string message
ErrorShaped == input.t = "object" /\ Get(heap[input.v], "message").t = "string"

\* a field of the input failure (undefined for a primitive)
InputField(f) == IF input.t = "object" THEN Get(heap[input.v], f) ELSE Undefined

\* the classification table of the specification
CodeTable ==
  [c \in {"ENOENT", "EACCES", "EPERM", "ENOTEMPTY", "EEXIST", "ENOTDIR", "EISDIR", "EINVAL"} |->
     CASE c = "ENOENT" -> "FileNotFoundError"
       [] c \in {"EACCES", "EPERM"} -> "PermissionDeniedError"
       [] c = "ENOTEMPTY" -> "DirectoryNotEmptyError"
       [] c = "EEXIST" -> "FileAlreadyExistsError"
       [] c = "ENOTDIR" -> "NotADirectoryError"
       [] c = "EISDIR" -> "IsADirectoryError"
       [] OTHER -> "InvalidArgumentError"]

TableVariant(code) ==
  IF code.t = "string" /\ code.v \in DOMAIN CodeTable THEN CodeTable[code.v] ELSE "IOError"

\* C1: for every error-shaped failure the variant returned is the one the table
\* gives for the failure's code alone; an absent code, a code in another letter
\* case and a non-string code give IOError, whatever the message, path, syscall
\* and contextPath are.
C1_VariantByCode ==
  \A i \in DOMAIN results :
    ErrorShaped => /\ Returned(i)
                   /\ Res(i).name = Str(TableVariant(InputField("code")))

C1_Witness ==
  /\ ErrorShaped
  /\ \E i \in DOMAIN results :
       /\ InputField("code") = Str("EPERM")
       /\ results[i].path = Str("/x")
       /\ InputField("path") = Str("/a/b.txt")
       /\ Returned(i)
       /\ Res(i).name = Str("PermissionDeniedError")

\* C2: mapNodeError is total: every failure value and every contextPath give a
\* returned error object whose variant is one of the nine names; it never throws.
C2_Total ==
  \A i \in DOMAIN results :
    /\ Returned(i)
    /\ Res(i).name.t = "string"
    /\ Res(i).name.v \in FsErrorName

\* C6: for every failure carrying a path P1 and every contextPath P2 the result's
\* path is P2; with no contextPath it is P1.
C6_PathPrecedence ==
  \A i \in DOMAIN results :
    (input.t = "object" /\ heap[input.v].path /= Absent) =>
       /\ Returned(i)
       /\ Get(Res(i), "path") =
            (IF results[i].path /= Undefined THEN results[i].path ELSE heap[input.v].path)

\* C7: in every variant, UnknownError included, the result's path is the
\* contextPath when a non-empty one was supplied, otherwise the failure's own
\* path, otherwise absent.
C7_PathEveryVariant ==
  \A i \in DOMAIN results :
    Returned(i) =>
      Get(Res(i), "path") =
        (IF results[i].path.t = "string" /\ results[i].path.v /= ""
         THEN results[i].path ELSE InputField("path"))

\* C8: the cause of every value mapNodeError returns is the input failure itself:
\* the same primitive, or a reference to the same object.
C8_CauseIsInput ==
  \A i \in DOMAIN results : Returned(i) => Res(i).cause = input

C8_Witness ==
  /\ input = Ref("o1")
  /\ Len(results) = 2
  /\ Returned(1) /\ Returned(2)
  /\ Res(1).name = Str("UnknownError")
  /\ results[1].val /= results[2].val
  /\ Res(2).cause = Ref("o1")

\* C9: syscall and code are carried only by an IOError, where they are the
\* failure's own syscall and code; every other variant has neither, even when the
\* failure has both.
C9_IOErrorOnlyMetadata ==
  \A i \in DOMAIN results :
    Returned(i) =>
      IF Res(i).name = Str("IOError")
      THEN /\ Get(Res(i), "syscall") = InputField("syscall")
           /\ Get(Res(i), "code") = InputField("code")
      ELSE /\ Get(Res(i), "syscall") = Undefined
           /\ Get(Res(i), "code") = Undefined

C9_Witness ==
  /\ \E i \in DOMAIN results :
       /\ Returned(i)
       /\ Res(i).name = Str("IOError")
       /\ Res(i).syscall = Str("open")
       /\ Res(i).code = Str("EIO")
  /\ \E j \in DOMAIN results :
       /\ Returned(j)
       /\ results[j].path = Str("")
       /\ Res(j).name = Str("IOError")

C9_WitnessSpecific ==
  \E i \in DOMAIN results :
    /\ Returned(i)
    /\ Res(i).name = Str("FileNotFoundError")
    /\ InputField("syscall") = Str("open")
    /\ Get(Res(i), "code") = Undefined

\* C10: the result is an UnknownError exactly when the failure is not
\* error-shaped, and then its message is the string form of the failure and its
\* cause the failure.
C10_UnknownIffNotShaped ==
  \A i \in DOMAIN results :
    /\ Returned(i)
    /\ (Res(i).name = Str("UnknownError")) <=> ~ErrorShaped
    /\ ~ErrorShaped =>
         /\ ToStr(input, heap).kind = "return"
         /\ Res(i).message = ToStr(input, heap).val
         /\ Res(i).cause = input

-----------------------------------------------------------------------------
(* Properties of the wrappers, stated over Spec *)

\* the wrapper call has produced its result
Settled == call.result.kind \notin {"none", "pending"}

\* the operations whose handler names a path argument, and that argument
PathTaking == (SyncOps \cup AsyncOps) \ (SyncNoContext \cup AsyncNoContext)
PathArgument == IF call.op \in SyncSecondArg \cup AsyncSecondArg THEN call.b ELSE call.a

\* the path argument is an open descriptor or handle, not a path
IsDescriptor ==
  \/ call.op \in SyncFdOrPath /\ call.a.t = "number"
  \/ call.op \in AsyncHandleOrPath /\ call.a.t = "object"

\* C3: no wrapper lets a failure escape: a blocking wrapper never throws, a
\* non-blocking wrapper never returns a ResultAsync that rejects, whatever the
\* arguments (a null or undefined path included) and whatever the primitive
\* raises; and a failure of the primitive never becomes Ok.
C3_NoEscape ==
  /\ call.result.kind \notin {"throw", "reject"}
  /\ (Settled /\ call.prim.kind = "fail") => call.result.kind = "Err"

\* C4: when the primitive of a path-taking wrapper fails with f, the result is
\* Err(mapNodeError(f, String(pathArgument))): the variant of f's code, f's
\* message, and f as the cause.
C4_ErrIsClassified ==
  (Settled /\ call.prim.kind = "fail" /\ call.op \in PathTaking /\ ~IsDescriptor) =>
     LET f == heap[call.prim.val.v]
         p == ToStr(PathArgument, heap)
         expected == mapNodeError(call.prim.val, p.val, heap)
     IN /\ call.result.kind = "Err"
        /\ heap[call.result.val.v] = expected.val
        /\ heap[call.result.val.v].name = Str(TableVariant(Get(f, "code")))
        /\ heap[call.result.val.v].message = Get(f, "message")
        /\ heap[call.result.val.v].cause = call.prim.val

\* C5: when the primitive succeeds with v, the wrapper's result is Ok(v) with the
\* same v (the same primitive value or the same object), undefined included, in
\* both layers.
C5_OkUnchanged ==
  (Settled /\ call.prim.kind = "ok") => call.result = [kind |-> "Ok", val |-> call.prim.val]

C5_Witness ==
  /\ call.op = "mkdir"
  /\ call.prim = [kind |-> "ok", val |-> Str("/a")]
  /\ call.result = [kind |-> "Ok", val |-> Str("/a")]

C5_WitnessSync ==
  /\ call.op = "readFileSync"
  /\ call.a = Num("3")
  /\ call.result = [kind |-> "Ok", val |-> Ref("v1")]

-----------------------------------------------------------------------------
(* Further properties of the classifier, stated over SpecMap *)

\* C11: for every error-shaped failure the result's message is the failure's
\* message when that is non-empty and the literal 'Unknown error' exactly when it
\* is the empty string; contextPath and code have no part in it.
C11_MessageVerbatim ==
  \A i \in DOMAIN results :
    ErrorShaped =>
      /\ Returned(i)
      /\ InputField("message").v /= "" => Res(i).message = InputField("message")
      /\ InputField("message").v = "" => Res(i).message = Str("Unknown error")
      /\ (Res(i).message = Str("Unknown error")) => InputField("message").v = ""

C11_Witness ==
  /\ ErrorShaped
  /\ Len(results) >= 2
  /\ InputField("message") = Str("")
  /\ InputField("code") = Str("EEXIST")
  /\ Returned(1) /\ Returned(2)
  /\ results[1].path /= results[2].path
  /\ Res(1).message = Str("Unknown error")
  /\ Res(2).message = Str("Unknown error")

\* the eight native codes the classifier recognises
RecognizedCodes == DOMAIN CodeTable

\* the input carries one of the recognised codes
CarriesRecognizedCode ==
  InputField("code").t = "string" /\ InputField("code").v \in RecognizedCodes

PlainShaped ==
  /\ input.t = "object"
  /\ heap[input.v].proto /= "Error"
  /\ heap[input.v].message.t = "string"

\* the heap in which the input object is an Error instance with the same fields
AsErrorInstance == [heap EXCEPT ![input.v].proto = "Error"]

\* C13: a plain object with a string message that is not an Error instance is
\* classified exactly as the Error instance with the same message, code, path
\* and syscall is: by the code table, never as UnknownError.
C13_StructuralShape ==
  \A i \in DOMAIN results :
    PlainShaped =>
      /\ Returned(i)
      /\ Res(i).name /= Str("UnknownError")
      /\ Res(i).name = Str(TableVariant(InputField("code")))
      /\ mapNodeError(input, results[i].path, AsErrorInstance).kind = "return"
      /\ Res(i) = mapNodeError(input, results[i].path, AsErrorInstance).val

C13_Witness ==
  /\ PlainShaped
  /\ heap[input.v].proto = "Object"
  /\ InputField("code") = Str("ENOENT")
  /\ InputField("path") = Str("/a/b.txt")
  /\ Len(results) >= 1
  /\ results[1].path = Undefined
  /\ Returned(1)
  /\ Res(1).name = Str("FileNotFoundError")
  /\ Res(1).path = Str("/a/b.txt")

-----------------------------------------------------------------------------
(* existsSync *)

\* existsSync has been called with a path
ExistsCalled == call.op = "existsSync" /\ call.a.t = "string"

-----------------------------------------------------------------------------
(* Descriptors and handles *)

\* readFile, writeFile, appendFile and their blocking counterparts
FdOps == SyncFdOrPath \cup AsyncHandleOrPath

\* the primitive of an operation taking a path or a descriptor has failed and
\* the wrapper has produced its result
FdOpFailed == call.op \in FdOps /\ call.prim.kind = "fail" /\ Settled

\* C16: for readFile, writeFile, appendFile and their blocking counterparts,
\* when the first argument is an open descriptor (a number in the blocking
\* layer, a FileHandle in the non-blocking layer) and the primitive fails, the
\* classifier is called without contextPath and the returned error's path is
\* the failure's own path, or undefined when it has none; when the first
\* argument is a path string, the contextPath is that string.
C16_DescriptorNoContext ==
  FdOpFailed =>
    /\ IsDescriptor =>
         /\ call.ctx = Undefined
         /\ call.result.kind = "Err"
         /\ heap["o2"].path = Get(heap["o1"], "path")
    /\ call.a.t = "string" =>
         /\ call.ctx = call.a
         /\ call.result.kind = "Err"
         /\ heap["o2"].path = IF call.a.v /= "" THEN call.a ELSE Get(heap["o1"], "path")

C16_Witness ==
  /\ call.op = "writeFileSync"
  /\ call.a = Num("3")
  /\ call.prim.kind = "fail"
  /\ heap["o1"].path = Absent
  /\ call.ctx = Undefined
  /\ call.result.kind = "Err"
  /\ heap["o2"].path = Undefined

C16_WitnessHandle ==
  /\ call.op = "readFile"
  /\ call.a = Ref("h1")
  /\ call.prim.kind = "fail"
  /\ heap["o1"].path = Str("/other")
  /\ call.ctx = Undefined
  /\ call.result.kind = "Err"
  /\ heap["o2"].path = Str("/other")

-----------------------------------------------------------------------------
(* One attempt *)

\* C17: every wrapper call invokes its own underlying primitive exactly once
\* and no other primitive, whether the primitive succeeds or fails; in
\* particular a call whose primitive has failed shows one invocation only.
C17_ExactlyOnce ==
  call.layer /= "none" =>
    /\ call.invoked = 1
    /\ call.log = <<PrimitiveOf(call.op)>>
    /\ call.prim.kind = "fail" => Len(call.log) = 1

C17_Witness ==
  /\ call.op = "rmdirSync"
  /\ call.prim.kind = "fail"
  /\ call.result.kind = "Err"
  /\ heap["o2"].name = Str("DirectoryNotEmptyError")
  /\ call.invoked = 1
  /\ call.log = <<"fs.rmdirSync">>

C17_WitnessAsync ==
  /\ call.op = "rmdir"
  /\ call.prim.kind = "fail"
  /\ call.result.kind = "Err"
  /\ call.log = <<"fs/promises.rmdir">>

-----------------------------------------------------------------------------
(* The two layers *)

\* the operations of the non-blocking layer that have a blocking counterpart
CommonOps == {op \in AsyncOps : (op \o "Sync") \in SyncOps}

\* the counterpart of an operation in the other layer
Twin(op) ==
  IF op \in SyncOps THEN CHOOSE o \in AsyncOps : (o \o "Sync") = op ELSE op \o "Sync"

\* the call is to an operation that exists in both layers
InBothLayers == call.op \in CommonOps \/ call.op \in {op \o "Sync" : op \in CommonOps}

\* the outcome the primitive of the call had
PrimOutcome ==
  [kind |-> call.prim.kind, val |-> call.prim.val,
   obj |-> IF call.prim.kind = "fail" THEN heap["o1"] ELSE Absent,
   present |-> call.present, oserr |-> call.oserr]

\* what the counterpart wrapper makes of the same arguments and the same outcome
TwinResult ==
  IF call.layer = "sync"
  THEN AsyncResult(Twin(call.op), call.a, call.b, PrimOutcome, heap)
  ELSE SyncResult(Twin(call.op), call.a, call.b, PrimOutcome, heap)

\* the same arguments can give the same outcome in the counterpart's primitive
Comparable ==
  /\ InBothLayers
  /\ Settled
  /\ PrimOutcome \in PrimOutcomes(Twin(call.op), call.a, call.b)

\* C18: for every operation that exists in both layers, the same arguments and
\* the same outcome of the underlying primitive give the same result in both:
\* Ok of the same value, or Err of an error with the same variant, message,
\* path, syscall, code and cause.
C18_LayersAgree ==
  Comparable =>
    /\ call.result.kind \in {"Ok", "Err"}
    /\ TwinResult.kind = call.result.kind
    /\ call.result.kind = "Ok" => TwinResult.val = call.result.val
    /\ call.result.kind = "Err" => TwinResult.obj = heap["o2"]

\* the same, for calls whose path argument is neither null nor undefined
C18_AgreeOnPaths ==
  (Comparable /\ PathArgument.t \notin {"null", "undefined"}) =>
    /\ call.result.kind \in {"Ok", "Err"}
    /\ TwinResult.kind = call.result.kind
    /\ call.result.kind = "Ok" => TwinResult.val = call.result.val
    /\ call.result.kind = "Err" => TwinResult.obj = heap["o2"]

C18_AgreeWitness ==
  /\ Comparable
  /\ call.op = "symlink"
  /\ call.b = Str("/c/d.txt")
  /\ call.result.kind = "Err"
  /\ TwinResult.kind = "Err"
  /\ TwinResult.obj = heap["o2"]
  /\ heap["o2"].path = Str("/c/d.txt")

-----------------------------------------------------------------------------
(* Repeated classification *)

\* the fields of a classified error that a caller reads
SameFields(x, y) ==
  /\ x.name = y.name
  /\ x.message = y.message
  /\ x.path = y.path
  /\ x.syscall = y.syscall
  /\ x.code = y.code
  /\ x.cause = y.cause

C20_NoSideEffects ==
  [][/\ \A id \in DOMAIN heap : id \in DOMAIN heap' /\ heap'[id] = heap[id]
     /\ input' = input]_vars

C20_Witness ==
  /\ input = Ref("o1")
  /\ heap["o1"].path = Str("/a/b.txt")
  /\ heap["o1"].code = Str("ENOENT")
  /\ Len(results) >= 2
  /\ Len(re) = 1
  /\ results[1].path = Str("/x")
  /\ Returned(1)
  /\ Res(1).path = Str("/x")
  /\ re[1].of = 1
  /\ re[1].path = Str("/x")
  /\ re[1].kind = "return"
  /\ heap[re[1].val.v].cause = results[1].val

-----------------------------------------------------------------------------
(* The variant tag *)

\* a wrapper call has returned an Err
Failed == Settled /\ call.result.kind = "Err"

\* C23: the error of every failed wrapper call holds its variant name in the
\* field `kind`: error.kind is one of the nine names and is the name of the
\* error's actual variant, so a switch on error.kind selects that variant's case.
C23_KindIsVariant ==
  Failed =>
    /\ Read(heap["o2"], "kind") \in {Str(n) : n \in FsErrorName}
    /\ Read(heap["o2"], "kind") = heap["o2"].name

\* the tag is in the field `name`
C23_NameIsVariant ==
  Failed =>
    /\ heap["o2"].name \in {Str(n) : n \in FsErrorName}
    /\ Read(heap["o2"], "kind") = Undefined

-----------------------------------------------------------------------------
(* Two-path operations and mkdtemp *)

\* the primitive of a two-path operation has failed and the wrapper is done
TwoPathFailed == call.op \in TwoPathOps /\ call.prim.kind = "fail" /\ Settled

\* C25: when a two-path operation fails, the error's path is the string form of
\* one fixed argument, the first for copyFile, cp, link and rename and the
\* second for symlink, whatever path the failure carries.
C25_FixedArgument ==
  TwoPathFailed =>
    /\ call.result.kind = "Err"
    /\ heap["o2"].path = ToStr(PathArgument, heap).val

\* the same for a fixed argument that is neither null, undefined nor empty
C25_FixedNonEmpty ==
  (TwoPathFailed /\ PathArgument.t \notin {"null", "undefined"} /\ PathArgument /= Str("")) =>
    /\ call.result.kind = "Err"
    /\ heap["o2"].path = ToStr(PathArgument, heap).val

C25_FixedWitness ==
  /\ call.op = "renameSync"
  /\ call.a = Str("/a/b.txt")
  /\ call.b = Str("/c/d.txt")
  /\ call.prim.kind = "fail"
  /\ heap["o1"].path = Str("/other")
  /\ call.result.kind = "Err"
  /\ heap["o2"].path = Str("/a/b.txt")

\* C26: mkdtemp and mkdtempSync call the classifier without contextPath: when
\* they fail, whatever the prefix is (null and undefined included), the result
\* is an Err whose path is the failure's own path, or undefined when the failure
\* has none; the prefix is not used.
C26_NoPrefixPath ==
  (call.op \in {"mkdtemp", "mkdtempSync"} /\ call.prim.kind = "fail" /\ Settled) =>
    /\ call.ctx = Undefined
    /\ call.result.kind = "Err"
    /\ heap["o2"].path = Get(heap["o1"], "path")
    /\ heap["o1"].path = Absent => heap["o2"].path = Undefined

C26_Witness ==
  /\ call.op = "mkdtempSync"
  /\ call.a = Str("/a/b.txt")
  /\ call.prim.kind = "fail"
  /\ heap["o1"].path = Absent
  /\ call.result.kind = "Err"
  /\ heap["o2"].path = Undefined

C26_WitnessOwnPath ==
  /\ call.op = "mkdtemp"
  /\ call.a = Str("/a/b.txt")
  /\ call.prim.kind = "fail"
  /\ heap["o1"].path = Str("/other")
  /\ call.result.kind = "Err"
  /\ heap["o2"].path = Str("/other")

-----------------------------------------------------------------------------
(* Re-classification *)

\* the error the k-th re-classification was given, and the one it returned
First(k) == heap[results[re[k].of].val.v]
Again(k) == heap[re[k].val.v]

\* C27: mapNodeError applied without contextPath to an error it returned
\* earlier, whose message is a string, returns an IOError whose cause is that
\* earlier error and whose path is that error's path; code and syscall are
\* those of the earlier error when it was an IOError and undefined otherwise.
\* The variant of the earlier error is not kept.
C27_ReclassifiedIsIOError ==
  \A k \in DOMAIN re :
    (re[k].path = Undefined /\ First(k).message.t = "string") =>
      /\ re[k].kind = "return"
      /\ Again(k).name = Str("IOError")
      /\ Again(k).cause = results[re[k].of].val
      /\ Again(k).path = Get(First(k), "path")
      /\ First(k).name = Str("IOError") =>
           /\ Again(k).code = Get(First(k), "code")
           /\ Again(k).syscall = Get(First(k), "syscall")
      /\ First(k).name /= Str("IOError") =>
           /\ Again(k).code = Undefined
           /\ Again(k).syscall = Undefined

C27_Witness ==
  /\ Len(re) = 1
  /\ re[1].path = Undefined
  /\ re[1].kind = "return"
  /\ First(1).name = Str("FileNotFoundError")
  /\ First(1).path = Str("/a/b.txt")
  /\ Again(1).name = Str("IOError")
  /\ Again(1).path = Str("/a/b.txt")
  /\ Again(1).cause = results[re[1].of].val
  /\ Again(1).code = Undefined

C27_WitnessIOError ==
  /\ Len(re) = 1
  /\ re[1].path = Undefined
  /\ First(1).name = Str("IOError")
  /\ First(1).code = Str("EIO")
  /\ First(1).syscall = Str("open")
  /\ Again(1).name = Str("IOError")
  /\ Again(1).code = Str("EIO")
  /\ Again(1).syscall = Str("open")

-----------------------------------------------------------------------------
(* The message *)

\* C29: the message of every value mapNodeError returns is a string, and a
\* non-empty one when the failure is error-shaped; Error instances with a
\* non-string message and objects with a non-string message field included.
C29_MessageIsString ==
  \A i \in DOMAIN results :
    Returned(i) =>
      /\ Res(i).message.t = "string"
      /\ ErrorShaped => Res(i).message.v /= ""

\* the input is an Error instance whose message is not a string
ErrorWithOddMessage ==
  /\ InstanceOfError(input, heap)
  /\ Get(heap[input.v], "message").t /= "string"

\* the same for every failure but an Error instance with a non-string message
C29_StringUnlessOddError ==
  \A i \in DOMAIN results :
    (Returned(i) /\ ~ErrorWithOddMessage) =>
      /\ Res(i).message.t = "string"
      /\ ErrorShaped => Res(i).message.v /= ""

-----------------------------------------------------------------------------
(* watch *)

\* the underlying watch fails for this call
WatchFails == call.op = "watch" /\ call.oserr /= Undefined

\* C24: every failure of the underlying watch, at creation or at the first
\* consumption of the iterator, reaches the caller as an Err: the result of
\* such a call is never Ok and the failure is never thrown at the caller raw.
C24_WatchFailureIsErr ==
  WatchFails =>
    /\ Settled => call.result.kind = "Err"
    /\ call.consumed /= "threw"

\* what happens instead: the result is Ok of the iterator
C24_WatchFailureIsOk ==
  (WatchFails /\ Settled) => call.result = [kind |-> "Ok", val |-> Ref("v1")]

C24_RawWitness ==
  /\ call.op = "watch"
  /\ call.a = Str("/a/b.txt")
  /\ call.oserr = Str("ENOENT")
  /\ call.result.kind = "Ok"
  /\ call.consumed = "threw"

-----------------------------------------------------------------------------
(* SpecConc: several non-blocking calls in flight together.  Each call is the
   same wrapper code as in Spec; the objects of the i-th call live in the
   shared heap under ids that carry the call's tag. *)

\* the wrappers called together, and their path arguments
ConcOps == {"access", "readFile"}
ConcArgs == {Str("/a/b.txt"), Null}

\* the outcomes of the primitive that are told apart here
ConcOutcomes(op, a, b) ==
  {out \in PrimOutcomes(op, a, b) :
     /\ out.kind = "fail" =>
       /\ out.obj.code \in {Str("ENOENT"), Str("ERR_INVALID_ARG_TYPE")}
       /\ out.obj.path \in {Absent, Str("/other")}
     /\ out.kind = "ok" => out.val.t /= "object"}

\* the heap ids of the i-th call's objects
CallTag(i) == <<"c1.", "c2.", "c3.">>[i]
LocalIds == {"o1", "o2", "v1"}

\* a value of the i-th call as the shared heap names it, and back
Global(i, v) == IF v.t = "object" THEN Ref(CallTag(i) \o v.v) ELSE v
Localize(i, v) ==
  IF v.t = "object" THEN Ref(CHOOSE k \in LocalIds : CallTag(i) \o k = v.v) ELSE v

\* the objects h of the i-th call, under their shared ids
Tagged(i, h) ==
  [id \in {CallTag(i) \o k : k \in DOMAIN h} |->
     h[CHOOSE k \in DOMAIN h : CallTag(i) \o k = id]]

\* the objects of the i-th call, under their own names
OwnHeap(i) ==
  [k \in {k \in LocalIds : (CallTag(i) \o k) \in DOMAIN heap} |-> heap[CallTag(i) \o k]]

\* a non-blocking wrapper is called: fs.x(...) is evaluated as the argument of
\* ResultAsync.fromPromise, so the primitive is started here, and the
\* ResultAsync is returned
ConcCall(op, a) ==
  /\ Len(calls) < MaxCalls
  /\ calls' = Append(calls, [op |-> op, a |-> a, b |-> Undefined, invoked |-> 1,
                             awaited |-> 0, settles |-> 0,
                             prim |-> Pending, result |-> Pending])
  /\ UNCHANGED <<heap, input, results, re, call>>

\* the promise of the i-th call's primitive settles
ConcSettle(i) ==
  /\ i \in DOMAIN calls
  /\ calls[i].prim.kind = "pending"
  /\ \E out \in ConcOutcomes(calls[i].op, calls[i].a, calls[i].b) :
       /\ heap' = heap @@ Tagged(i, OutcomeHeap(out))
       /\ calls' = [calls EXCEPT ![i].prim = [kind |-> out.kind, val |-> Global(i, out.val)]]
  /\ UNCHANGED <<input, results, re, call>>

\* a wrapper whose errorFn classifies the failure settled last, kept in a
\* variable shared by all calls
ConcResolve_SharedFailure(i) ==
  /\ i \in DOMAIN calls
  /\ calls[i].prim.kind \in {"ok", "fail"}
  /\ calls[i].result.kind = "pending"
  /\ LET c == calls[i]
         failed == {j \in DOMAIN calls : calls[j].prim.kind = "fail"}
         last == IF i + 1 \in failed THEN i + 1 ELSE IF failed /= {} THEN CHOOSE j \in failed : TRUE ELSE i
         out == [kind |-> c.prim.kind, val |-> Localize(last, calls[last].prim.val)]
         r == AsyncResult(c.op, c.a, c.b, out, OwnHeap(last))
     IN /\ heap' = IF r.kind = "Err"
                   THEN heap @@ ((CallTag(i) \o "o2") :> [r.obj EXCEPT !.cause = Global(last, @)])
                   ELSE heap
        /\ calls' = [calls EXCEPT ![i].result = [kind |-> r.kind, val |-> Global(i, r.val)],
                                  ![i].settles = @ + 1]
  /\ UNCHANGED <<input, results, re, call>>

\* the then/catch callbacks that ResultAsync.fromPromise attached to the i-th
\* call's promise run
ConcResolve(i) ==
  /\ i \in DOMAIN calls
  /\ calls[i].prim.kind \in {"ok", "fail"}
  /\ calls[i].result.kind = "pending"
  /\ LET c == calls[i]
         out == [kind |-> c.prim.kind, val |-> Localize(i, c.prim.val)]
         r == AsyncResult(c.op, c.a, c.b, out, OwnHeap(i))
     IN /\ heap' = IF r.kind = "Err"
                   THEN heap @@ ((CallTag(i) \o "o2") :> [r.obj EXCEPT !.cause = Global(i, @)])
                   ELSE heap
        /\ calls' = [calls EXCEPT ![i].result = [kind |-> r.kind, val |-> Global(i, r.val)],
                                  ![i].settles = @ + 1]
  /\ UNCHANGED <<input, results, re, call>>

\* the awaits and chainings so far on the first n ResultAsyncs
RECURSIVE Awaits(_)
Awaits(n) == IF n = 0 THEN 0 ELSE calls[n].awaited + Awaits(n - 1)

\* a ResultAsync whose primitive is started again by every await
Await_Restarts(i) ==
  /\ i \in DOMAIN calls
  /\ Awaits(Len(calls)) < MaxAwait
  /\ calls' = [calls EXCEPT ![i].awaited = @ + 1, ![i].invoked = @ + 1]
  /\ UNCHANGED <<heap, input, results, re, call>>

\* the caller awaits the i-th ResultAsync or chains on it: one more reaction on
\* the promise it holds
Await(i) ==
  /\ i \in DOMAIN calls
  /\ Awaits(Len(calls)) < MaxAwait
  /\ calls' = [calls EXCEPT ![i].awaited = @ + 1]
  /\ UNCHANGED <<heap, input, results, re, call>>

NextConc ==
  \/ \E op \in ConcOps, a \in ConcArgs : ConcCall(op, a)
  \/ \E i \in 1..MaxCalls : ConcSettle(i)
  \/ \E i \in 1..MaxCalls : ConcResolve(i)
  \/ \E i \in 1..MaxCalls : Await(i)

SpecConc == Init /\ [][NextConc]_vars

\* the host runs the reactions of a settled promise
SpecConcFair == SpecConc /\ \A i \in 1..MaxCalls : WF_vars(ConcResolve(i))

-----------------------------------------------------------------------------
(* Properties of calls in flight together, stated over SpecConc *)

\* the i-th call's primitive, and its result, have settled
PrimDone(i) == i \in DOMAIN calls /\ calls[i].prim.kind \in {"ok", "fail"}
Done(i) == i \in DOMAIN calls /\ calls[i].result.kind \notin {"none", "pending"}

\* the i-th call's failure object and the error of its result
FailureOf(i) == heap[CallTag(i) \o "o1"]
ErrorOf(i) == heap[CallTag(i) \o "o2"]

\* the i-th and the j-th call were given the same arguments and their
\* primitives had the same outcome
SameCallAndOutcome(i, j) ==
  /\ calls[i].op = calls[j].op
  /\ calls[i].a = calls[j].a
  /\ calls[i].prim.kind = calls[j].prim.kind
  /\ calls[i].prim.kind = "ok" => calls[i].prim.val.t = calls[j].prim.val.t
  /\ (calls[i].prim.kind = "ok" /\ calls[i].prim.val.t /= "object") =>
        calls[i].prim.val = calls[j].prim.val
  /\ calls[i].prim.kind = "fail" => FailureOf(i) = FailureOf(j)

\* C21: calls in flight together do not interfere.  Whatever the order in
\* which the primitives settle, a finished call's result is made of its own
\* primitive's outcome only: Ok of its own value, or an Err whose cause is its
\* own failure object and whose message and path come from that failure and its
\* own argument; two calls with the same arguments and outcome have the same
\* result; and a call whose primitive has settled can finish whatever state the
\* other calls are in (looked at in the states where nothing was awaited yet).
C21_NoInterference ==
  /\ \A i \in DOMAIN calls :
       /\ Done(i) => PrimDone(i)
       /\ (Done(i) /\ calls[i].result.kind = "Ok") =>
            calls[i].prim.kind = "ok" /\ calls[i].result.val = calls[i].prim.val
       /\ (Done(i) /\ calls[i].result.kind = "Err") =>
            /\ calls[i].prim.kind = "fail"
            /\ calls[i].result.val = Ref(CallTag(i) \o "o2")
            /\ ErrorOf(i).cause = calls[i].prim.val
            /\ ErrorOf(i).cause = Ref(CallTag(i) \o "o1")
            /\ ErrorOf(i).message = FailureOf(i).message
            /\ ErrorOf(i).path = calls[i].a
       /\ (PrimDone(i) /\ ~Done(i) /\ Awaits(Len(calls)) = 0) => ENABLED ConcResolve(i)
  /\ \A i, j \in DOMAIN calls :
       (Done(i) /\ Done(j) /\ SameCallAndOutcome(i, j)) =>
          /\ calls[i].result.kind = calls[j].result.kind
          /\ calls[i].result.kind = "Err" =>
               /\ ErrorOf(i).name = ErrorOf(j).name
               /\ ErrorOf(i).message = ErrorOf(j).message
               /\ ErrorOf(i).path = ErrorOf(j).path
               /\ ErrorOf(i).code = ErrorOf(j).code
               /\ ErrorOf(i).syscall = ErrorOf(j).syscall

C21_Witness ==
  /\ Len(calls) = 2
  /\ calls[1].prim.kind = "pending"
  /\ calls[2].a = Str("/a/b.txt")
  /\ calls[2].result.kind = "Err"
  /\ ErrorOf(2).cause = Ref("c2.o1")
  /\ ErrorOf(2).name = Str("FileNotFoundError")

C21_WitnessBoth ==
  /\ Len(calls) = 2
  /\ calls[1].op = "readFile" /\ calls[2].op = "access"
  /\ calls[1].result.kind = "Err"
  /\ calls[2].result.kind = "Err"
  /\ FailureOf(1).path = Str("/other")
  /\ FailureOf(2).path = Absent
  /\ ErrorOf(1).cause = Ref("c1.o1")
  /\ ErrorOf(2).cause = Ref("c2.o1")

\* the i-th call's result agrees with what its primitive's promise did: pending
\* until the promise settles, Ok when it fulfilled, Err when it rejected, and
\* settled once
SettledAsPrimitive(i) ==
  /\ Done(i) => PrimDone(i)
  /\ calls[i].settles <= 1
  /\ Done(i) => calls[i].settles = 1
  /\ (Done(i) /\ calls[i].prim.kind = "ok") => calls[i].result.kind = "Ok"
  /\ (Done(i) /\ calls[i].prim.kind = "fail") =>
        /\ calls[i].result.kind = "Err"
        /\ ErrorOf(i).name \in {Str(n) : n \in FsErrorName}

\* a settled result never changes
SettledOnce(i) ==
  (i \in DOMAIN calls /\ Done(i)) => calls'[i].result = calls[i].result

\* C22: every non-blocking wrapper call stays pending until its primitive's
\* promise settles and then settles exactly once, to Ok when the promise
\* fulfilled and to Err(ClassifiedError) when it rejected; once the primitive's
\* promise has settled the wrapper's result eventually settles, and it never
\* settles before the primitive does.
C22_SettleAfterPrimitive ==
  /\ [](\A i \in DOMAIN calls : SettledAsPrimitive(i))
  /\ [][\A i \in 1..MaxCalls : SettledOnce(i)]_vars
  /\ \A i \in 1..MaxCalls : PrimDone(i) ~> Done(i)

\* the same, for the calls whose path argument has a toString method
C22_SettleAfterPrimitiveWithPath ==
  /\ [](\A i \in DOMAIN calls : calls[i].a /= Null => SettledAsPrimitive(i))
  /\ [][\A i \in 1..MaxCalls : SettledOnce(i)]_vars
  /\ \A i \in 1..MaxCalls : PrimDone(i) ~> Done(i)

\* a call given null whose promise rejected with the handler's own TypeError
C22_RejectedWitness ==
  \E i \in DOMAIN calls :
     /\ calls[i].a = Null
     /\ calls[i].prim.kind = "fail"
     /\ calls[i].result.kind \notin {"none", "pending", "Ok", "Err"}

\* C28: a non-blocking wrapper starts its primitive when it is called, before
\* and whether or not the returned ResultAsync is awaited or chained: every
\* call made has its primitive started exactly once, whatever the number of
\* awaits so far (none included), while its primitive is pending and after it
\* has settled.
C28_StartedAtCall ==
  \A i \in DOMAIN calls :
     /\ calls[i].invoked = 1
     /\ calls[i].awaited \in 0..MaxAwait
     /\ calls[i].prim.kind \in {"pending", "ok", "fail"}

\* awaiting or chaining never touches the primitive
C28_AwaitStartsNothing ==
  [][\A i \in 1..MaxCalls :
       (i \in DOMAIN calls /\ calls'[i].awaited /= calls[i].awaited) =>
          /\ calls'[i].invoked = calls[i].invoked
          /\ calls'[i].prim = calls[i].prim
          /\ calls'[i].result = calls[i].result]_vars

\* a call awaited twice, and a call that finished without ever being awaited
C28_Witness ==
  /\ Len(calls) = 2
  /\ calls[1].awaited = MaxAwait /\ calls[1].invoked = 1
  /\ calls[2].awaited = 0 /\ calls[2].invoked = 1 /\ Done(2)

====
